---- MODULE Spec2Model ----
(***************************************************************************)
(* Model of remote_grep.py: a grep fan-out over SSH on several hosts with  *)
(* an optional SFTP download of the matching files.                        *)
(*                                                                         *)
(* Threads: one pool worker per submitted host (run_list_on_host) and the  *)
(* main thread (the as_completed loop of main, which also runs             *)
(* sftp_download_files inline).                                            *)
(***************************************************************************)
EXTENDS Integers, Sequences, FiniteSets, TLC

(* ------------------------------ bounds -------------------------------- *)

\* Largest number of host entries in the configuration.
MaxHosts == 2

\* Largest value of --parallel drawn (0 exercises max(args.parallel, 1)).
MaxParallel == 2

(* --------------------------- input domains ---------------------------- *)

\* Ways connect_ssh / open_sftp can end: success, one of the three exception
\* classes the except clauses name, or any other exception class.
ConnKinds == {"ok", "auth", "ssh", "socket", "other"}

\* The classes named at lines 95 and 127.
CaughtKinds == {"auth", "ssh", "socket"}

\* Ways exec_command and the stream reads can end.
ExecKinds == {"ok", "raise"}

\* Remote exit statuses: grep's 0, 1, 2, and an unrecognised one (255, which
\* is also the code the program uses for a failed connection).
ExitCodes == {0, 1, 2, 255}

\* Ways load_hosts can end: a non-empty host list, or an exception (the file
\* cannot be opened, is not valid JSON, an entry lacks a key, no entry at all).
LoadKinds == {"ok", "nofile", "badjson", "nokey", "empty"}

\* Ways sftp.get can end.
GetKinds == {"ok", "notfound", "perm", "other"}

\* Characters are Unicode code points; a string is a sequence of them.
\* Standard output of the remote command after decode(): '' and
\* ' /a\t\r\n \x0b\n/b', two padded path lines with blank lines between them.
StdoutSamples ==
    { <<>>,
      <<32, 47, 97, 9, 13, 10, 32, 11, 10, 47, 98>> }

(* --------------------------- pure functions --------------------------- *)

\* The characters str.strip() removes (those for which str.isspace() holds).
WhiteSpace ==
    {9, 10, 11, 12, 13, 28, 29, 30, 31, 32, 133, 160, 5760}
       \cup (8192..8202) \cup {8232, 8233, 8239, 8287, 12288}

\* The characters at which str.splitlines() ends a line.
LineBreaks == {10, 11, 12, 13, 28, 29, 30, 133, 8232, 8233}

IsSpace(c) == c \in WhiteSpace

\* Index of the first line boundary of s, 0 when there is none.
FirstNL(s) ==
    IF \E i \in 1..Len(s) : s[i] \in LineBreaks
    THEN CHOOSE i \in 1..Len(s) :
            s[i] \in LineBreaks /\ \A j \in 1..(i - 1) : s[j] \notin LineBreaks
    ELSE 0

\* Length of the line boundary at index k of s: '\r\n' is one boundary.
BreakLen(s, k) == IF s[k] = 13 /\ k < Len(s) /\ s[k + 1] = 10 THEN 2 ELSE 1

\* str.splitlines(): no trailing empty line after a final line boundary.
RECURSIVE SplitLines(_)
SplitLines(s) ==
    IF s = <<>> THEN <<>>
    ELSE LET k == FirstNL(s) IN
         IF k = 0 THEN <<s>>
         ELSE <<SubSeq(s, 1, k - 1)>> \o SplitLines(SubSeq(s, k + BreakLen(s, k), Len(s)))

RECURSIVE LStrip(_)
LStrip(s) == IF s # <<>> /\ IsSpace(Head(s)) THEN LStrip(Tail(s)) ELSE s

RECURSIVE RStrip(_)
RStrip(s) ==
    IF s # <<>> /\ IsSpace(s[Len(s)]) THEN RStrip(SubSeq(s, 1, Len(s) - 1)) ELSE s

\* str.strip()
Strip(s) == RStrip(LStrip(s))

\* paths = [line.strip() for line in out.splitlines() if line.strip()]
RECURSIVE StripNonBlank(_)
StripNonBlank(lines) ==
    IF lines = <<>> THEN <<>>
    ELSE LET l == Strip(Head(lines)) IN
         IF l # <<>> THEN <<l>> \o StripNonBlank(Tail(lines))
         ELSE StripNonBlank(Tail(lines))

ParsePaths(out) == StripNonBlank(SplitLines(out))

\* rpath.lstrip("/"); 47 is the code point of "/".
RECURSIVE LStripSlash(_)
LStripSlash(p) == IF p # <<>> /\ Head(p) = 47 THEN LStripSlash(Tail(p)) ELSE p

\* os.path.join(dest_root, host.hostname, rpath.lstrip("/"))
LocalPath(h, rpath) == [root |-> "dest", host |-> h, rel |-> LStripSlash(rpath)]

\* max(args.parallel, 1)
MaxWorkers(p) == IF p > 1 THEN p ELSE 1

(* ---------------------- results of run_list_on_host ------------------- *)

NoFuture == [kind |-> "none", code |-> 0, paths |-> <<>>, err |-> ""]

\* Variant: the except clause reports the failed connection as grep's "no match".
ConnFailAsNoMatch ==
    [kind |-> "return", code |-> 1, paths |-> <<>>, err |-> "SSH/Network error"]

\* except (AuthenticationException, SSHException, socket.error): return (hostname, 255, [], ...)
ConnFailResult ==
    [kind |-> "return", code |-> 255, paths |-> <<>>, err |-> "SSH/Network error"]

\* An exception that leaves run_list_on_host is stored in the future.
RaisedResult == [kind |-> "exception", code |-> 0, paths |-> <<>>, err |-> ""]

\* return (host.hostname, exit_status, paths, err)
SearchResult(status, out) ==
    [kind |-> "return", code |-> status, paths |-> ParsePaths(out), err |-> "stderr"]

\* Variant: an exception of client.close() replaces what the call was returning.
AfterCloseRaising(r, closeOk) == IF closeOk THEN r ELSE RaisedResult

\* finally: try: client.close() except Exception: pass -- the value being
\* returned (or the exception being raised) is kept whether close() fails or not.
AfterClose(r, closeOk) == r

\* The record of failed close() calls: which session, and what the call was
\* returning at that moment. Kept only when log.on.
LogClose(log, entry, closeOk) ==
    IF log.on /\ ~closeOk THEN [log EXCEPT !.failed = @ \cup {entry}] ELSE log

\* Variant: a task whose connection failed is queued again.
AfterConnectRetry(k) == IF k = "ok" THEN "connected" ELSE "pending"

\* Where the task stands after connect_ssh: in the try block with an open
\* client, or over (it returned at line 96 or raised).
AfterConnect(k) == IF k = "ok" THEN "connected" ELSE "finished"

\* Which connection failures the except clause of run_list_on_host turns into a result.
ConnectResult(k) == IF k \in CaughtKinds THEN ConnFailResult ELSE RaisedResult

\* Whether a result of run_list_on_host is a failure of the search.
OutcomeFailed(r) == r.kind = "exception" \/ r.code \notin {0, 1}

\* Variant: a failed task cancels the tasks that have no result yet.
StoreResultCancelOthers(f, h, r) ==
    [g \in DOMAIN f |->
        IF g = h THEN r
        ELSE IF OutcomeFailed(r) /\ f[g].kind = "none" THEN RaisedResult
        ELSE f[g]]

\* The future of host h, and no other, receives what run_list_on_host returned or raised.
StoreResult(f, h, r) == [f EXCEPT ![h] = r]

(* ------------------------------ main ---------------------------------- *)

\* try: hostname, exit_code, paths, err = fut.result()
\* except Exception: exit_code, paths, err = 255, [], "Unhandled exception"
OutcomeOf(f) ==
    IF f.kind = "return"
    THEN [code |-> f.code, paths |-> f.paths, err |-> f.err]
    ELSE [code |-> 255, paths |-> <<>>, err |-> "Unhandled exception"]

\* The closing line of print_host_results.
InfoLine(code) ==
    CASE code = 0   -> "Matches found"
      [] code = 1   -> "No matches found"
      [] code = 2   -> "Grep reported an error"
      [] code = 255 -> "SSH/Network failure"
      [] OTHER      -> "Non-zero exit code"

\* What print_host_results writes for one host.
Report(h, o) ==
    [host |-> h, exit |-> o.code, paths |-> o.paths, err |-> o.err, info |-> InfoLine(o.code)]

\* Variant: a host whose task failed is not appended.
AppendResultSkipFailed(res, h, o) ==
    IF o.code = 255 THEN res ELSE Append(res, <<h, o.code, Len(o.paths)>>)

\* Variant: a matched host is appended only after its download, not here.
AppendResultSkipMatched(res, h, o) ==
    IF o.code = 0 THEN res ELSE Append(res, <<h, o.code, Len(o.paths)>>)

\* results.append((hostname, exit_code, len(paths)))
AppendResult(res, h, o) == Append(res, <<h, o.code, Len(o.paths)>>)

\* Variant: the test forgets the exit code.
ShouldDownloadAnyExit(dflag, o) == dflag = 1 /\ o.paths # <<>>

\* if args.download == 1 and exit_code == 0 and paths:
ShouldDownload(dflag, o) == dflag = 1 /\ o.code = 0 /\ o.paths # <<>>

\* Variant: every host that exited 0 is counted as matched.
MatchedHostsAnyCount(res) == Cardinality({i \in 1..Len(res) : res[i][2] = 0})

\* sum(1 for _, code, cnt in results if code == 0 and cnt > 0)
MatchedHosts(res) == Cardinality({i \in 1..Len(res) : res[i][2] = 0 /\ res[i][3] > 0})

\* sum(1 for _, code, cnt in results if code == 1 or cnt == 0)
NoMatchHosts(res) == Cardinality({i \in 1..Len(res) : res[i][2] = 1 \/ res[i][3] = 0})

\* Variant: only the host that completed last decides the error count.
ErrorHostsLastOnly(res) ==
    IF res # <<>> /\ res[Len(res)][2] \notin {0, 1} THEN 1 ELSE 0

\* sum(1 for _, code, _ in results if code not in (0, 1))
ErrorHosts(res) == Cardinality({i \in 1..Len(res) : res[i][2] \notin {0, 1}})

\* return 0 if error_hosts == 0 else 1
ExitSignal(errors) == IF errors = 0 THEN 0 ELSE 1

\* An exception that leaves main ends the interpreter with status 1.
UncaughtExit == 1

\* The value main returns when load_hosts raised.
FatalExit == 2

NoSummary == [total |-> -1, matched |-> -1, nomatch |-> -1, errors |-> -1, files |-> -1]

(* ------------------------ sftp_download_files ------------------------- *)

NoDownload == [state |-> "none", cause |-> "", files |-> <<>>]

\* The for loop goes on to the next path after sftp.get, whatever its result.
NextIdx(i, n, g) == i + 1

\* The diagnostic printed for a failed sftp.get.
WarnTag(g) ==
    CASE g = "notfound" -> "Remote file not found"
      [] g = "perm"     -> "Permission denied"
      [] OTHER          -> "Failed to download"

(* ------------------------------ state --------------------------------- *)

VARIABLES
    load,              \* how load_hosts ends
    nhosts,            \* len(hosts) (0: load_hosts raised)
    parallel,          \* args.parallel
    download,          \* args.download
    wpc,               \* per host: position of its pool task: "pending" (queued),
                       \*   "connecting" (a pool thread is in connect_ssh),
                       \*   "connected" (connect_ssh returned a client),
                       \*   "running" (exec_command was called; the task is in
                       \*   lines 100-115), "finished" (the future is set)
    conn,              \* per host: how connect_ssh ended in run_list_on_host
    execCalls,         \* per host: number of client.exec_command calls
    fut,               \* per host: what its future holds
    open,              \* sessions connected and not closed
    mainpc,            \* position of the main thread
    yielded,           \* futures as_completed has handed out
    cur,               \* host whose files are being downloaded (0: none)
    idx,               \* index in paths of the next rpath
    dl,                \* per host: the call of sftp_download_files
    results,           \* results
    printed,           \* what print_host_results wrote, in order
    stderr,            \* diagnostics of sftp_download_files, in order
    downloads_summary, \* downloads_summary
    summary,           \* the counts of the summary
    exitCode,          \* process exit status (-1: still running)
    closeLog           \* the close() calls that raised, when recorded

vars == <<load, nhosts, parallel, download, wpc, conn, execCalls, fut, open, mainpc,
          yielded, cur, idx, dl, results, printed, stderr, downloads_summary,
          summary, exitCode, closeLog>>

AllHosts == 1..MaxHosts
Hosts == 1..nhosts

inputVars == <<load, nhosts, parallel, download>>
workerVars == <<wpc, conn, execCalls, fut>>
mainVars == <<mainpc, yielded, cur, idx, dl, results, printed, stderr,
              downloads_summary, summary, exitCode>>

InitRun ==
    /\ load \in LoadKinds
    /\ nhosts \in 0..MaxHosts
    /\ load = "ok" <=> nhosts >= 1
    /\ parallel \in 0..MaxParallel
    /\ download \in {0, 1}
    /\ wpc = [h \in AllHosts |-> "pending"]
    /\ conn = [h \in AllHosts |-> "none"]
    /\ execCalls = [h \in AllHosts |-> 0]
    /\ fut = [h \in AllHosts |-> NoFuture]
    /\ open = {}
    /\ mainpc = "load"
    /\ yielded = {}
    /\ cur = 0
    /\ idx = 0
    /\ dl = [h \in AllHosts |-> NoDownload]
    /\ results = <<>>
    /\ printed = <<>>
    /\ stderr = <<>>
    /\ downloads_summary = <<>>
    /\ summary = NoSummary
    /\ exitCode = -1

Init == InitRun /\ closeLog = [on |-> FALSE, failed |-> {}]

\* The runs of at most two hosts, with the failed close() calls recorded
\* (close() is called once per session, by the call that opened it).
InitClose == InitRun /\ nhosts <= 2 /\ closeLog = [on |-> TRUE, failed |-> {}]

(* --------------------------- pool workers ----------------------------- *)

\* The pool exists and the tasks are submitted once load_hosts has returned.
PoolCreated == mainpc \notin {"load", "fatal"}

\* The hosts whose task a pool thread is running.
Busy == {h \in Hosts : wpc[h] \in {"connecting", "connected", "running"}}

\* Variant: a download in progress occupies one thread of the pool.
WorkerFreeUnlessDownloading ==
    Cardinality(Busy)
       + (IF mainpc \in {"sftp_connect", "sftp_open", "sftp_loop"} THEN 1 ELSE 0)
       < MaxWorkers(parallel)

\* ThreadPoolExecutor(max_workers=max(args.parallel, 1)): a thread of the pool is idle.
WorkerFree == Cardinality(Busy) < MaxWorkers(parallel)

\* A pool thread takes the oldest queued task and enters connect_ssh, where
\* it waits for client.connect.
TakeTask(h) ==
    /\ PoolCreated
    /\ h \in Hosts
    /\ wpc[h] = "pending"
    /\ \A g \in Hosts : g < h => wpc[g] # "pending"
    /\ WorkerFree
    /\ wpc' = [wpc EXCEPT ![h] = "connecting"]
    /\ UNCHANGED <<inputVars, conn, execCalls, fut, open, mainVars, closeLog>>

\* connect_ssh returns the client or raises; a raise ends the task.
Connect(h) ==
    /\ h \in Hosts
    /\ wpc[h] = "connecting"
    /\ \E k \in ConnKinds :
          /\ conn' = [conn EXCEPT ![h] = k]
          /\ wpc' = [wpc EXCEPT ![h] = AfterConnect(k)]
          /\ IF k = "ok"
             THEN /\ open' = open \cup {<<"search", h>>}
                  /\ fut' = fut
             ELSE /\ open' = open
                  /\ fut' = StoreResult(fut, h, ConnectResult(k))
    /\ UNCHANGED <<inputVars, execCalls, mainVars, closeLog>>

\* The task calls client.exec_command and waits in it or in the reads.
ExecCommand(h) ==
    /\ h \in Hosts
    /\ wpc[h] = "connected"
    /\ execCalls' = [execCalls EXCEPT ![h] = @ + 1]
    /\ wpc' = [wpc EXCEPT ![h] = "running"]
    /\ UNCHANGED <<inputVars, conn, fut, open, mainVars, closeLog>>

\* exec_command and the reads return or raise, the output is parsed, the
\* finally closes the client and the future is set. A failing client.close()
\* is swallowed and changes nothing.
Search(h) ==
    /\ h \in Hosts
    /\ wpc[h] = "running"
    /\ \E e \in ExecKinds, status \in ExitCodes, out \in StdoutSamples, closeOk \in BOOLEAN :
          /\ e = "raise" => (status = 0 /\ out = <<>>)
          /\ LET r == IF e = "ok" THEN SearchResult(status, out) ELSE RaisedResult IN
                /\ fut' = StoreResult(fut, h, AfterClose(r, closeOk))
                /\ closeLog' = LogClose(closeLog, <<"search", h, r>>, closeOk)
    /\ wpc' = [wpc EXCEPT ![h] = "finished"]
    /\ open' = open \ {<<"search", h>>}
    /\ UNCHANGED <<inputVars, conn, execCalls, mainVars>>

(* ---------------------------- main thread ----------------------------- *)

\* load_hosts: on an exception main prints [FATAL] and returns 2; otherwise
\* the pool is created and one task per host is submitted.
LoadHosts ==
    /\ mainpc = "load"
    /\ IF load = "ok"
       THEN /\ mainpc' = "loop"
            /\ exitCode' = exitCode
       ELSE /\ mainpc' = "fatal"
            /\ exitCode' = FatalExit
    /\ UNCHANGED <<inputVars, workerVars, open, yielded, cur, idx, dl, results,
                   printed, stderr, downloads_summary, summary, closeLog>>

\* One iteration of "for fut in as_completed(futures)" up to the download test.
Collect(h) ==
    /\ mainpc = "loop"
    /\ h \in Hosts \ yielded
    /\ wpc[h] = "finished"
    /\ LET o == OutcomeOf(fut[h]) IN
          /\ printed' = Append(printed, Report(h, o))
          /\ results' = AppendResult(results, h, o)
          /\ yielded' = yielded \cup {h}
          /\ IF ShouldDownload(download, o)
             THEN /\ mainpc' = "sftp_connect"
                  /\ cur' = h
                  /\ dl' = [dl EXCEPT ![h] = [state |-> "running", cause |-> "", files |-> <<>>]]
             ELSE /\ mainpc' = "loop"
                  /\ UNCHANGED <<cur, dl>>
    /\ UNCHANGED <<inputVars, workerVars, open, idx, stderr, downloads_summary,
                   summary, exitCode, closeLog>>

\* What sftp_download_files does when connect_ssh or open_sftp ended with k:
\* go on, print and return the empty list, or let the exception through.
SftpFailure(k) ==
    CASE k = "ok" -> "none"
      [] k \in CaughtKinds -> "returned"
      [] OTHER -> "raised"

\* sftp_download_files, line 125: connect_ssh returns the client or raises.
SftpConnect ==
    /\ mainpc = "sftp_connect"
    /\ \E k \in ConnKinds :
          /\ open' = IF k = "ok" THEN open \cup {<<"sftp", cur>>} ELSE open
          /\ CASE SftpFailure(k) = "none" ->
                    /\ mainpc' = "sftp_open"
                    /\ UNCHANGED <<cur, dl, stderr>>
               [] SftpFailure(k) = "returned" ->
                    /\ stderr' = Append(stderr, [host |-> cur, tag |-> "SFTP connect failed", rpath |-> <<>>])
                    /\ dl' = [dl EXCEPT ![cur] = [state |-> "returned", cause |-> "connect", files |-> <<>>]]
                    /\ mainpc' = "loop"
                    /\ cur' = 0
               [] OTHER ->
                    /\ dl' = [dl EXCEPT ![cur] = [state |-> "raised", cause |-> "connect", files |-> <<>>]]
                    /\ mainpc' = "aborting"
                    /\ cur' = 0
                    /\ stderr' = stderr
    /\ UNCHANGED <<inputVars, workerVars, yielded, idx, results, printed,
                   downloads_summary, summary, exitCode, closeLog>>

\* sftp_download_files, line 126: client.open_sftp() returns or raises; on a
\* raise the client stays connected (nothing closes it).
SftpOpen ==
    /\ mainpc = "sftp_open"
    /\ \E k \in ConnKinds :
          CASE SftpFailure(k) = "none" ->
                    /\ mainpc' = "sftp_loop"
                    /\ idx' = 1
                    /\ UNCHANGED <<cur, dl, stderr>>
            [] SftpFailure(k) = "returned" ->
                    /\ stderr' = Append(stderr, [host |-> cur, tag |-> "SFTP connect failed", rpath |-> <<>>])
                    /\ dl' = [dl EXCEPT ![cur] = [state |-> "returned", cause |-> "connect", files |-> <<>>]]
                    /\ mainpc' = "loop"
                    /\ cur' = 0
                    /\ idx' = 0
            [] OTHER ->
                    /\ dl' = [dl EXCEPT ![cur] = [state |-> "raised", cause |-> "connect", files |-> <<>>]]
                    /\ mainpc' = "aborting"
                    /\ cur' = 0
                    /\ idx' = 0
                    /\ stderr' = stderr
    /\ UNCHANGED <<inputVars, workerVars, open, yielded, results, printed,
                   downloads_summary, summary, exitCode, closeLog>>

CurPaths == OutcomeOf(fut[cur]).paths

\* One iteration of "for rpath in paths": os.makedirs, then sftp.get.
SftpGet ==
    /\ mainpc = "sftp_loop"
    /\ idx <= Len(CurPaths)
    /\ \E mkOk \in BOOLEAN, g \in GetKinds, closeOk \in BOOLEAN :
          /\ ~mkOk => g = "ok"
          /\ mkOk => closeOk
          /\ LET rpath == CurPaths[idx] IN
             IF ~mkOk
             THEN \* OSError leaves the for loop; the finally closes sftp and client
                  /\ dl' = [dl EXCEPT ![cur].state = "raised", ![cur].cause = "mkdir"]
                  /\ closeLog' = LogClose(closeLog, <<"sftp", cur, dl[cur].files>>, closeOk)
                  /\ open' = open \ {<<"sftp", cur>>}
                  /\ mainpc' = "aborting"
                  /\ cur' = 0
                  /\ idx' = 0
                  /\ stderr' = stderr
             ELSE /\ idx' = NextIdx(idx, Len(CurPaths), g)
                  /\ IF g = "ok"
                     THEN /\ dl' = [dl EXCEPT ![cur].files =
                                       Append(@, <<rpath, LocalPath(cur, rpath)>>)]
                          /\ stderr' = stderr
                     ELSE /\ stderr' = Append(stderr, [host |-> cur, tag |-> WarnTag(g), rpath |-> rpath])
                          /\ dl' = dl
                  /\ UNCHANGED <<open, mainpc, cur, closeLog>>
    /\ UNCHANGED <<inputVars, workerVars, yielded, results, printed,
                   downloads_summary, summary, exitCode>>

\* downloads_summary.extend((hostname, r, l) for r, l in dl)
Extend(ds, h, files) == ds \o [i \in 1..Len(files) |-> <<h, files[i][1], files[i][2]>>]

\* End of the for loop: the finally closes sftp and client, the list is returned
\* and main extends downloads_summary.
SftpReturn ==
    /\ mainpc = "sftp_loop"
    /\ idx > Len(CurPaths)
    /\ \E closeOk \in BOOLEAN :
          LET ret == AfterClose([kind |-> "return", files |-> dl[cur].files], closeOk) IN
          /\ closeLog' = LogClose(closeLog, <<"sftp", cur, dl[cur].files>>, closeOk)
          /\ IF ret.kind = "return"
             THEN /\ dl' = [dl EXCEPT ![cur].state = "returned"]
                  /\ downloads_summary' = Extend(downloads_summary, cur, ret.files)
                  /\ mainpc' = "loop"
             ELSE /\ dl' = [dl EXCEPT ![cur].state = "raised", ![cur].cause = "close"]
                  /\ downloads_summary' = downloads_summary
                  /\ mainpc' = "aborting"
    /\ open' = open \ {<<"sftp", cur>>}
    /\ cur' = 0
    /\ idx' = 0
    /\ UNCHANGED <<inputVars, workerVars, yielded, results, printed, stderr,
                   summary, exitCode>>

\* as_completed is exhausted, the pool is shut down, the summary is computed.
Summarize ==
    /\ mainpc = "loop"
    /\ yielded = Hosts
    /\ summary' = [total   |-> Len(results),
                   matched |-> MatchedHosts(results),
                   nomatch |-> NoMatchHosts(results),
                   errors  |-> ErrorHosts(results),
                   files   |-> IF download = 1 THEN Len(downloads_summary) ELSE -1]
    /\ exitCode' = ExitSignal(ErrorHosts(results))
    /\ mainpc' = "done"
    /\ UNCHANGED <<inputVars, workerVars, open, yielded, cur, idx, dl, results,
                   printed, stderr, downloads_summary, closeLog>>

\* An exception left the for loop: the with block waits for the queued and
\* running tasks, then the exception leaves main.
Abort ==
    /\ mainpc = "aborting"
    /\ \A h \in Hosts : wpc[h] = "finished"
    /\ mainpc' = "crashed"
    /\ exitCode' = UncaughtExit
    /\ UNCHANGED <<inputVars, workerVars, open, yielded, cur, idx, dl, results,
                   printed, stderr, downloads_summary, summary, closeLog>>

Next ==
    \/ LoadHosts
    \/ \E h \in AllHosts : TakeTask(h)
    \/ \E h \in AllHosts : Connect(h)
    \/ \E h \in AllHosts : ExecCommand(h)
    \/ \E h \in AllHosts : Search(h)
    \/ \E h \in AllHosts : Collect(h)
    \/ SftpConnect
    \/ SftpOpen
    \/ SftpGet
    \/ SftpReturn
    \/ Summarize
    \/ Abort

Spec == Init /\ [][Next]_vars

SpecClose == InitClose /\ [][Next]_vars

(* ====================== properties of the program ====================== *)

\* The outcome taxonomy of the specification, by recorded exit code.
Status(code) ==
    CASE code = 0   -> "Matched"
      [] code = 1   -> "NoMatch"
      [] code = 255 -> "ConnectionFailure"
      [] OTHER      -> "RemoteError"

\* Number of entries of results for host h.
Recorded(h) == Cardinality({i \in 1..Len(results) : results[i][1] = h})

\* The report print_host_results wrote for a host as_completed has handed out.
ReportOf(h) == printed[CHOOSE i \in 1..Len(printed) : printed[i].host = h]

\* Whether a run that loaded its host list ended, by the return of main at
\* line 266 or by an exception leaving it.
Ended == mainpc \in {"done", "crashed"}

(* ---- C1 ---- *)
\* C1: a run that completed (main reached its summary and returned) has
\* recorded exactly one outcome per submitted host, whatever failed; and at no
\* moment is a host recorded twice.
C1_OneOutcomePerHost ==
    /\ \A h \in Hosts : Recorded(h) <= 1
    /\ mainpc = "done" =>
          /\ Len(results) = nhosts
          /\ Len(printed) = nhosts
          /\ \A h \in Hosts : Recorded(h) = 1

\* A completed run of two hosts in which one connection failed, one command
\* raised after connecting.
C1_Witness ==
    /\ mainpc = "done"
    /\ nhosts = 2
    /\ \E h, g \in Hosts :
          /\ conn[h] \in CaughtKinds \cup {"other"}
          /\ conn[g] = "ok" /\ fut[g].kind = "exception"

(* ---- C2 ---- *)
\* C2 (as claimed): once the run has ended, its process exit status is non-zero
\* if and only if some host ended in RemoteError or ConnectionFailure.
C2_SignalIffErrorHost ==
    Ended =>
       ((exitCode # 0) <=>
           \E h \in Hosts :
              Status(OutcomeOf(fut[h]).code) \in {"RemoteError", "ConnectionFailure"})

(* ---- C3 ---- *)
\* C3: sftp_download_files is called for a host if and only if the host's
\* recorded exit code is 0, its recorded path list is non-empty and
\* --download is 1.
C3_RetrievalIffMatched ==
    \A h \in Hosts :
       /\ dl[h].state # "none" => h \in yielded
       /\ h \in yielded =>
             ((dl[h].state # "none") <=>
                 /\ download = 1
                 /\ Status(ReportOf(h).exit) = "Matched"
                 /\ ReportOf(h).paths # <<>>)

\* With --download 1: one host retrieved, another handed out with exit code 0
\* and no path, and so not retrieved.
C3_Witness ==
    /\ download = 1
    /\ \E h, g \in yielded :
          /\ dl[h].state # "none"
          /\ ReportOf(g).exit = 0 /\ ReportOf(g).paths = <<>> /\ dl[g].state = "none"

(* ---- C4 ---- *)
\* C4: when connect_ssh fails in run_list_on_host, exec_command is never called
\* for the host, no search session of the host is open, and the outcome
\* recorded for the host is ConnectionFailure (255) with no path.
C4_ConnectionFailure ==
    \A h \in Hosts :
       conn[h] \notin {"none", "ok"} =>
          /\ execCalls[h] = 0
          /\ <<"search", h>> \notin open
          /\ h \in yielded =>
                /\ Status(ReportOf(h).exit) = "ConnectionFailure"
                /\ ReportOf(h).paths = <<>>
                /\ \E i \in 1..Len(results) : results[i] = <<h, 255, 0>>

\* A host whose connection failed with one of the named exceptions has been reported.
C4_Witness == \E h \in yielded : conn[h] \in CaughtKinds

(* ---- C5 ---- *)
\* C5 (as claimed): a host whose remote search exited with status 1 is
\* reported with an empty list of matched paths.
C5_NoMatchHasNoPaths ==
    \A i \in 1..Len(printed) :
       printed[i].exit = 1 => (printed[i].paths = <<>> /\ results[i][3] = 0)

(* ---- C6 ---- *)
\* C6 (as claimed): the code 255 is recorded only for a host whose search
\* session could not be established.
C6_SentinelOnlyIfUnreachable ==
    \A i \in 1..Len(results) :
       results[i][2] = 255 => conn[results[i][1]] \in CaughtKinds \cup {"other"}

(* ---- C7 ---- *)
\* C7 (as claimed): a retrieval whose session was established returns one
\* record per path of the host.
C7_OneRecordPerPath ==
    \A h \in Hosts :
       (dl[h].state = "returned" /\ dl[h].cause # "connect") =>
          Len(dl[h].files) = Len(ReportOf(h).paths)

(* ---- C8 ---- *)
\* C8 (as claimed): a failure of os.makedirs for one file does not raise out of
\* sftp_download_files into main.
C8_MkdirFailureStaysInRetriever ==
    \A h \in Hosts : ~(dl[h].state = "raised" /\ dl[h].cause = "mkdir")

(* ---- C9 ---- *)
\* C9 (as claimed): when connect_ssh or open_sftp fails in sftp_download_files,
\* whatever the exception, the call returns an empty list and main goes on.
C9_ConnectFailureReturnsEmpty ==
    \A h \in Hosts :
       dl[h].cause = "connect" => (dl[h].state = "returned" /\ dl[h].files = <<>>)

(* ---- C10 ---- *)
\* C10 (as claimed): with --parallel N, N >= 1, the sessions open at once, for
\* searches and for retrievals, are never more than N.
C10_SessionsWithinBound == parallel >= 1 => Cardinality(open) <= parallel

(* ---- C11 ---- *)
\* C11: whenever sftp_download_files has been called for a host, the host's
\* search task has finished, its search session is closed, and its outcome
\* has been printed and appended to results.
C11_RetrievalAfterOutcome ==
    \A h \in Hosts :
       dl[h].state # "none" =>
          /\ wpc[h] = "finished"
          /\ fut[h].kind = "return"
          /\ <<"search", h>> \notin open
          /\ h \in yielded
          /\ Recorded(h) = 1
          /\ \E i \in 1..Len(printed) : printed[i].host = h

\* A retrieval is in progress for a host while another host is still searching.
C11_Witness ==
    \E h, g \in Hosts :
       /\ mainpc = "sftp_loop" /\ cur = h /\ dl[h].state = "running"
       /\ wpc[g] = "connected"

(* ---- C12 ---- *)
\* The files copied for the hosts of S, all together.
RECURSIVE FilesOf(_)
FilesOf(S) ==
    IF S = {} THEN 0
    ELSE LET h == CHOOSE x \in S : TRUE IN Len(dl[h].files) + FilesOf(S \ {h})

\* C12: the summary and the exit status are a function of the per-host
\* results alone, whatever the order in which the hosts completed: each count
\* equals the number of hosts whose own result has the property counted.
C12_SummaryIgnoresOrder ==
    mainpc = "done" =>
       LET code(h) == OutcomeOf(fut[h]).code
           cnt(h)  == Len(OutcomeOf(fut[h]).paths)
           errs    == Cardinality({h \in Hosts : code(h) \notin {0, 1}})
       IN /\ summary.total = nhosts
          /\ summary.matched = Cardinality({h \in Hosts : code(h) = 0 /\ cnt(h) > 0})
          /\ summary.nomatch = Cardinality({h \in Hosts : code(h) = 1 \/ cnt(h) = 0})
          /\ summary.errors = errs
          /\ download = 1 => summary.files = FilesOf(Hosts)
          /\ exitCode = IF errs = 0 THEN 0 ELSE 1

\* A completed run in which the second host completed first, the two hosts
\* ended differently (one in error) and a file was copied.
C12_Witness ==
    /\ mainpc = "done"
    /\ Len(results) = 2
    /\ results[1][1] = 2 /\ results[2][1] = 1
    /\ results[1][2] \notin {0, 1}
    /\ results[2][2] = 0
    /\ summary.files > 0

(* ---- C13 ---- *)
\* Whether sftp_download_files is running for host x.
Retrieving(x) == mainpc \in {"sftp_connect", "sftp_open", "sftp_loop"} /\ cur = x

\* C13: while the files of host x are being downloaded, the search of any
\* other host y can go on: if y is the oldest queued task and fewer than
\* max(--parallel, 1) tasks are running, a pool thread can take it; and every
\* later step of y's task (the connection returning, the command being sent,
\* the command ending) can be taken.
C13_SearchesRunDuringRetrieval ==
    \A x, y \in Hosts :
       (Retrieving(x) /\ y # x) =>
          /\ ( /\ wpc[y] = "pending"
               /\ \A g \in Hosts : g < y => wpc[g] # "pending"
               /\ Cardinality({g \in Hosts : wpc[g] \notin {"pending", "finished"}})
                     < (IF parallel > 1 THEN parallel ELSE 1) )
                => ENABLED TakeTask(y)
          /\ wpc[y] = "connecting" => ENABLED Connect(y)
          /\ wpc[y] = "connected" => ENABLED ExecCommand(y)
          /\ wpc[y] = "running" => ENABLED Search(y)

\* In the middle of the download of one host's files, with a single pool
\* thread, the search of another host is still queued and can start.
C13_Witness ==
    \E x, y \in Hosts :
       /\ mainpc = "sftp_loop" /\ cur = x /\ idx = 2
       /\ parallel <= 1
       /\ wpc[y] = "pending"
       /\ ENABLED TakeTask(y)

(* ---- C14 ---- *)
\* C14: a step of the search of host x, failing or not, changes nothing of the
\* search of another host y (its position, its connection result, its count
\* of commands, its future); and the entry main appends for a host is made of
\* that host's own future only.
C14_NoCrossHostEffect ==
    [][ /\ \A x \in Hosts :
              wpc'[x] # wpc[x] =>
                 \A y \in Hosts \ {x} :
                    /\ wpc'[y] = wpc[y]
                    /\ conn'[y] = conn[y]
                    /\ execCalls'[y] = execCalls[y]
                    /\ fut'[y] = fut[y]
        /\ \A y \in Hosts :
              (y \in yielded' /\ y \notin yielded) =>
                 LET r == results'[Len(results')] IN
                 /\ Len(results') = Len(results) + 1
                 /\ r[1] = y
                 /\ fut[y].kind = "return" => (r[2] = fut[y].code /\ r[3] = Len(fut[y].paths))
                 /\ fut[y].kind = "exception" => (r[2] = 255 /\ r[3] = 0)
      ]_vars

\* The search of one host failed (no connection, or an exception after
\* connecting) and another host is recorded as matched with its paths.
C14_Witness ==
    \E x, y \in Hosts :
       /\ x # y
       /\ wpc[x] = "finished"
       /\ (conn[x] \in CaughtKinds \/ fut[x].kind = "exception")
       /\ y \in yielded
       /\ conn[y] = "ok"
       /\ ReportOf(y).exit = 0 /\ Len(ReportOf(y).paths) = 2

(* ---- C15 ---- *)
\* The reports of hosts that exited 0 with no parsed path.
EmptyMatches == {i \in 1..Len(printed) : printed[i].exit = 0 /\ printed[i].paths = <<>>}

\* C15 (as claimed): in the summary a host that exited 0 with no parsed path is
\* counted among the matched hosts and not among the no-match hosts.
C15_EmptyMatchCountedAsMatched ==
    mainpc = "done" =>
       /\ summary.matched = Cardinality({i \in 1..Len(printed) : printed[i].exit = 0})
       /\ summary.nomatch =
             Cardinality({i \in 1..Len(printed) :
                             /\ printed[i].exit # 0
                             /\ (printed[i].exit = 1 \/ printed[i].paths = <<>>)})

\* C15 (amended): a host that exited 0 with no parsed path is reported for the
\* host as a match (exit 0, "Matches found", empty path list) and is not
\* downloaded from; in the summary it is counted among the no-match hosts and
\* not among the matched hosts.
C15_EmptyMatchReportedNotCounted ==
    /\ \A i \in EmptyMatches :
          /\ printed[i].info = "Matches found"
          /\ results[i] = <<printed[i].host, 0, 0>>
          /\ dl[printed[i].host].state = "none"
    /\ mainpc = "done" =>
          /\ summary.matched =
                Cardinality({i \in 1..Len(printed) :
                                printed[i].exit = 0 /\ printed[i].paths # <<>>})
          /\ summary.nomatch =
                Cardinality({i \in 1..Len(printed) :
                                printed[i].exit = 1 \/ printed[i].paths = <<>>})

\* A completed run of one host that exited 0 with no path: no matched host and
\* one no-match host in the summary.
C15_Witness ==
    /\ mainpc = "done"
    /\ nhosts = 1
    /\ EmptyMatches = {1}
    /\ summary.matched = 0
    /\ summary.nomatch = 1

(* ---- C16 ---- *)
\* C16: a close() that raises is swallowed and changes no result. For every
\* search session whose close() raised, the future of the host holds what
\* run_list_on_host had computed before the close (exit status, paths, stderr)
\* and that is what main reports; for every retrieval session whose close()
\* raised, the list of downloaded files is the one built before the close, it
\* is returned unless os.makedirs had already raised, and main adds it to
\* downloads_summary.
C16_CloseFailureChangesNothing ==
    \A e \in closeLog.failed :
       LET h == e[2] IN
       /\ e[1] = "search" =>
             /\ wpc[h] = "finished"
             /\ fut[h] = e[3]
             /\ h \in yielded =>
                   /\ ReportOf(h).exit = OutcomeOf(e[3]).code
                   /\ ReportOf(h).paths = OutcomeOf(e[3]).paths
                   /\ ReportOf(h).err = OutcomeOf(e[3]).err
       /\ e[1] = "sftp" =>
             /\ dl[h].files = e[3]
             /\ dl[h].state \in {"returned", "raised"}
             /\ dl[h].state = "raised" => dl[h].cause = "mkdir"
             /\ dl[h].state = "returned" =>
                   \A i \in 1..Len(e[3]) :
                      \E j \in 1..Len(downloads_summary) :
                         downloads_summary[j] = <<h, e[3][i][1], e[3][i][2]>>

\* The close() of a search session raised after a command that exited 0 with
\* two paths, and the close() of the retrieval session of the same host raised
\* after both files were copied.
C16_Witness ==
    \E h \in Hosts :
       /\ \E e \in closeLog.failed :
             e[1] = "search" /\ e[2] = h /\ e[3].kind = "return" /\ e[3].code = 0
       /\ \E e \in closeLog.failed :
             e[1] = "sftp" /\ e[2] = h /\ Len(e[3]) = 2
       /\ dl[h].state = "returned"

(* ---- C17 ---- *)
\* C17: no retry. In every step, for every host: connect_ssh of the search
\* is called only for a host that was never connected to, and a search session
\* is opened only then; a task a pool thread has taken never goes back (to the
\* queue or to an earlier step); a finished
\* task stays finished with the same future and at most one command was run; a
\* host handed out by as_completed stays handed out and is not recorded
\* again; a retrieval starts only for a host without one and, once returned or
\* raised, is never started again.
C17_NoRetry ==
    [][ \A h \in Hosts :
           /\ conn[h] # "none" => conn'[h] = conn[h]
           /\ (<<"search", h>> \in open' /\ <<"search", h>> \notin open) => conn[h] = "none"
           /\ wpc[h] = "connecting" => wpc'[h] \in {"connecting", "connected", "finished"}
           /\ wpc[h] = "connected" => wpc'[h] \in {"connected", "running"}
           /\ wpc[h] = "running" => wpc'[h] \in {"running", "finished"}
           /\ wpc[h] = "finished" => (wpc'[h] = "finished" /\ fut'[h] = fut[h])
           /\ execCalls'[h] <= 1
           /\ h \in yielded => (h \in yielded' /\ Recorded(h)' = Recorded(h))
           /\ dl[h].state = "running" => dl'[h].state # "none"
           /\ dl[h].state \in {"returned", "raised"} => dl'[h] = dl[h]
      ]_vars

\* A completed run in which the connection to one host failed and the files
\* of another host were downloaded.
C17_Witness ==
    /\ mainpc = "done"
    /\ \E h, g \in Hosts :
          /\ conn[h] \in CaughtKinds /\ wpc[h] = "finished" /\ execCalls[h] = 0
          /\ dl[g].state = "returned" /\ dl[g].files # <<>>

(* ---- C18 ---- *)
\* C18 (as claimed): in the summary of a completed run the three categories
\* add up to the number of hosts.
C18_CategoriesAddUp ==
    mainpc = "done" =>
       summary.matched + summary.nomatch + summary.errors = summary.total

(* ---- C19 ---- *)
\* C19 (as claimed): a session is open only while the call that opened it is
\* running: a search session while run_list_on_host is in its try block, a
\* retrieval session while sftp_download_files is in open_sftp or its for loop.
C19_NoSessionOutlivesItsCall ==
    \A h \in Hosts :
       /\ <<"search", h>> \in open => wpc[h] \in {"connected", "running"}
       /\ <<"sftp", h>> \in open => (mainpc \in {"sftp_open", "sftp_loop"} /\ cur = h)

(* ---- C20 ---- *)
\* C20 (as claimed): a run on a loaded host list that can take no further
\* step has every host recorded, the summary computed and the exit value of
\* main returned.
C20_EndsWithSummary ==
    \/ ENABLED Next
    \/ mainpc = "fatal"
    \/ /\ mainpc = "done"
       /\ \A h \in Hosts : wpc[h] = "finished" /\ Recorded(h) = 1
       /\ summary.total = nhosts
       /\ exitCode \in {0, 1}

====
